---- MODULE Spec2Model ----
(***************************************************************************)
(* A model of the orchestration core of fabric.agent (src/fabric_core.py): *)
(* Claim, MemoryVault (add_claim / get_slice), Agent.run, llm_call and     *)
(* AgentFabric (registries, handle_request, last_trace).                   *)
(*                                                                         *)
(* Strings are sequences of tokens, so that f-strings and str.join are     *)
(* concatenations.  A Python dict whose iteration order the code relies on *)
(* (slices_for_agent) is a sequence of entries; the other dicts are        *)
(* functions.  Objects that the code shares by reference (the trace dicts) *)
(* live in a small heap, trace_dicts, addressed by references.             *)
(***************************************************************************)
EXTENDS Integers, Sequences, FiniteSets, TLC

(***************************************************************************)
(* Bounds of the model.                                                    *)
(***************************************************************************)
\* the longest _claims list a vault is grown to
MaxVaultLen == 3
\* the longest list of agents a gatekeeper strategy returns
MaxSelect == 2
\* max_claims of a direct get_slice call ranges over -MaxLimit .. MaxLimit
MaxLimit == 3
\* longest slice handed to Agent.run directly
MaxSliceLen == 2

(***************************************************************************)
(* Program constants.                                                      *)
(***************************************************************************)
\* get_slice(self, beacon_query, max_claims: int = 5)
DefaultMaxClaims == 5

ErrorMarker == "[Error: LLM call failed.]"
NoAgentMessage == <<"No relevant agent could be found to handle this request.">>
NoInfoMarker == "\n--- No relevant information found in memory vaults. ---\n"

(***************************************************************************)
(* Python values.                                                          *)
(***************************************************************************)
\* {} : the empty dict
EmptyDict == [k \in {} |-> k]

\* d[k] = v on a dict whose order is not observed
DictPut(d, k, v) == [x \in (DOMAIN d) \cup {k} |-> IF x = k THEN v ELSE d[x]]

\* d[k] = v on an insertion-ordered dict: an existing key keeps its place
OrderedPut(d, k, v) ==
    IF \E n \in 1..Len(d) : d[n].key = k
    THEN [n \in 1..Len(d) |-> IF d[n].key = k THEN [key |-> k, val |-> v] ELSE d[n]]
    ELSE Append(d, [key |-> k, val |-> v])

OrderedKeys(d) == {d[n].key : n \in 1..Len(d)}

Min(a, b) == IF a < b THEN a ELSE b
Max(a, b) == IF a < b THEN b ELSE a

\* faulty variant of PySliceFrom: s[:-start], the head of the list instead of its tail
PySliceHead(s, start) == SubSeq(s, 1, Min(0 - start, Len(s)))

\* s[start:] : a negative start counts from the end, and both are clamped
PySliceFrom(s, start) ==
    LET lo == IF start < 0 THEN Max(Len(s) + start, 0) ELSE Min(start, Len(s))
    IN  SubSeq(s, lo + 1, Len(s))

(***************************************************************************)
(* The values the operations are called with.                              *)
(***************************************************************************)
\* Claim(content, beacons, id)
ClaimPool ==
    { [id |-> "c1", content |-> "invoice 17 is overdue", beacons |-> [topic |-> "billing"]],
      [id |-> "c2", content |-> "card declined twice",
       beacons |-> [topic |-> "billing", urgent |-> "yes"]] }

\* beacon_query arguments of get_slice
QueryPool ==
    { EmptyDict, [topic |-> "billing"], [topic |-> "billing", urgent |-> "yes"],
      [topic |-> "shipping"] }

Limits == (0 - MaxLimit)..MaxLimit

\* ids of the MemoryVault objects that exist ("V2", which an agent names, is none)
VaultIds == {"V1"}

(***************************************************************************)
(* MemoryVault                                                             *)
(***************************************************************************)
\* faulty variant of Matches: any(...) in place of all(...)
MatchesAny(claim, beacon_query) ==
    \E k \in DOMAIN beacon_query :
        k \in DOMAIN claim.beacons /\ claim.beacons[k] = beacon_query[k]

\* all(item in claim.beacons.items() for item in beacon_query.items())
Matches(claim, beacon_query) ==
    \A k \in DOMAIN beacon_query :
        k \in DOMAIN claim.beacons /\ claim.beacons[k] = beacon_query[k]

\* faulty variant of add_claim: the vault keeps only its two most recent claims
add_claim_capped(claims, claim) ==
    IF Len(claims) >= 2 THEN Append(Tail(claims), claim) ELSE Append(claims, claim)

\* faulty variant of add_claim: self._claims.insert(0, claim)
add_claim_front(claims, claim) == <<claim>> \o claims

\* self._claims.append(claim)
add_claim(claims, claim) == Append(claims, claim)

\* the value get_slice returns
get_slice(claims, beacon_query, max_claims) ==
    LET matches == SelectSeq(claims, LAMBDA claim : Matches(claim, beacon_query))
    IN  PySliceFrom(matches, 0 - max_claims)

\* faulty variant of claims_after_get_slice: the returned claims are taken out of the vault
claims_drained(claims, beacon_query, max_claims) ==
    SelectSeq(claims,
              LAMBDA claim : \A n \in 1..Len(get_slice(claims, beacon_query, max_claims)) :
                                 get_slice(claims, beacon_query, max_claims)[n] # claim)

\* self._claims after get_slice: the comprehension and the slice build new lists
claims_after_get_slice(claims, beacon_query, max_claims) == claims

(***************************************************************************)
(* Agent                                                                   *)
(***************************************************************************)
\* Agent(agent_id, role_prompt, vault_ids)
AgentPool ==
    { [id |-> "A", role |-> "billing analyst", vault_ids |-> <<"V1", "V2">>],
      [id |-> "B", role |-> "greeter", vault_ids |-> <<>>] }

AgentIds == {a.id : a \in AgentPool}

\* what the caller passes to handle_request
QuerySet == {"where is my parcel", "why was I charged"}

\* the text of a successful generate_content(prompt), stripped
GeneratedTexts == {"a partial answer"}

\* llm_call(prompt): the stripped text, or the error marker when the call raises
llm_call(prompt) == GeneratedTexts \cup {ErrorMarker}

RECURSIVE claim_lines(_)
\* for claim in claims: context += f"- {claim.content}\n"
claim_lines(claims) ==
    IF claims = <<>> THEN <<>>
    ELSE <<"- ", Head(claims).content, "\n">> \o claim_lines(Tail(claims))

RECURSIVE build_context_all(_)
\* faulty variant of build_context: a header for every vault, empty slice or not
build_context_all(slices) ==
    IF slices = <<>> THEN <<>>
    ELSE <<"\n--- Context from ", Head(slices).key, " ---\n">>
             \o claim_lines(Head(slices).val) \o build_context_all(Tail(slices))

RECURSIVE build_context(_)
\* the loop of Agent.run over slices.items()
build_context(slices) ==
    IF slices = <<>> THEN <<>>
    ELSE (IF Head(slices).val # <<>>
          THEN <<"\n--- Context from ", Head(slices).key, " ---\n">>
                   \o claim_lines(Head(slices).val)
          ELSE <<>>) \o build_context(Tail(slices))

\* faulty variant of context_of: the empty context is passed on as it is
context_of_blank(slices) == build_context(slices)

\* context as it is embedded in the prompt
context_of(slices) ==
    IF build_context(slices) = <<>> THEN <<NoInfoMarker>> ELSE build_context(slices)

\* the prompt Agent.run hands to llm_call
prompt_of(agent, query, slices) ==
    <<"\nYour Role: ", agent.role, "\nUser's Query: \"", query,
      "\"\nRelevant Information:\n">>
        \o context_of(slices)
        \o <<"\nBased on your role and the provided information, generate a concise, partial response.\n">>

(***************************************************************************)
(* AgentFabric                                                             *)
(***************************************************************************)
\* gatekeeper_strategy(query, self._agents): a list of registered agents
Selections(agents) ==
    UNION { [1..n -> {agents[id] : id \in DOMAIN agents}] : n \in 0..MaxSelect }

\* beacon_strategy(query)
BaseBeacons(query) == { EmptyDict, [topic |-> "billing"] }

\* slice_augmentation_strategy(agent, base_beacons): pass through, or add a beacon
AgentBeacons(agent, base_beacons) ==
    { base_beacons, DictPut(base_beacons, "urgent", "yes") }

\* faulty variant of new_trace: the trace of the request before is updated in place
new_trace_kept(query, old) ==
    IF DOMAIN old = {}
    THEN [query |-> query, woken_agents |-> <<>>, base_beacons |-> EmptyDict,
          slices_per_agent |-> EmptyDict, partial_results |-> EmptyDict]
    ELSE [old EXCEPT !.query = query]

\* the dict literal handle_request binds to self.last_trace (old, the dict it
\* replaces, is not read)
new_trace(query, old) ==
    [query |-> query, woken_agents |-> <<>>, base_beacons |-> EmptyDict,
     slices_per_agent |-> EmptyDict, partial_results |-> EmptyDict]

\* faulty variant of trace_of_call: each call keeps to the dict it created
trace_of_call_local(bound, own) == own

\* self.last_trace[...] and return ..., self.last_trace: a running call reaches
\* its trace through the attribute of the fabric, whatever that is bound to by
\* then, never through a reference of its own
trace_of_call(bound, own) == bound

\* faulty variant of vault_lookup: self._vaults[vault_id] without the membership test
vault_lookup_unguarded(vault_id, vaults) ==
    IF vault_id \in vaults THEN "vault" ELSE "KeyError"

\* if vault_id in self._vaults: vault = self._vaults[vault_id]
vault_lookup(vault_id, vaults) == IF vault_id \in vaults THEN "vault" ELSE "skipped"

\* faulty variant of slice_for_vault: an unregistered id gets a key with an empty slice
slice_for_any_vault(slices_for_agent, vault_id, vaults, claims, agent_beacons) ==
    OrderedPut(slices_for_agent, vault_id,
               IF vault_id \in vaults
               THEN get_slice(claims[vault_id], agent_beacons, DefaultMaxClaims)
               ELSE <<>>)

\* faulty variant of slice_for_vault: the vault is read without a limit
slice_for_vault_unlimited(slices_for_agent, vault_id, vaults, claims, agent_beacons) ==
    IF vault_id \in vaults
    THEN OrderedPut(slices_for_agent, vault_id,
                    get_slice(claims[vault_id], agent_beacons, Len(claims[vault_id]) + 1))
    ELSE slices_for_agent

\* if vault_id in self._vaults: slices_for_agent[vault_id] = vault.get_slice(agent_beacons)
slice_for_vault(slices_for_agent, vault_id, vaults, claims, agent_beacons) ==
    IF vault_id \in vaults
    THEN OrderedPut(slices_for_agent, vault_id,
                    get_slice(claims[vault_id], agent_beacons, DefaultMaxClaims))
    ELSE slices_for_agent

\* faulty variant of record_slices: an agent without a slice leaves no entry
record_slices_if_any(slices_per_agent, agent_id, slices_for_agent) ==
    IF slices_for_agent = <<>> THEN slices_per_agent
    ELSE DictPut(slices_per_agent, agent_id, slices_for_agent)

\* self.last_trace['slices_per_agent'][agent.id] = slices_for_agent
record_slices(slices_per_agent, agent_id, slices_for_agent) ==
    DictPut(slices_per_agent, agent_id, slices_for_agent)

\* faulty variant of record_result: the first text of an agent id is kept
record_result_once(partial_results, agent_id, partial_result) ==
    IF agent_id \in DOMAIN partial_results THEN partial_results
    ELSE DictPut(partial_results, agent_id, partial_result)

\* self.last_trace['partial_results'][agent.id] = partial_result
record_result(partial_results, agent_id, partial_result) ==
    DictPut(partial_results, agent_id, partial_result)

\* faulty variant of contribution: a failed generation is left out of the contribution
contribution_without_error(agent_id, partial_result) ==
    <<"--- Contribution from ", agent_id, " ---\n",
      IF partial_result = ErrorMarker THEN "" ELSE partial_result>>

\* f"--- Contribution from {agent.id} ---\n{partial_result}"
contribution(agent_id, partial_result) ==
    <<"--- Contribution from ", agent_id, " ---\n", partial_result>>

\* faulty variant of append_contribution: the list is built back to front
prepend_contribution(partial_results_list, agent_id, partial_result) ==
    <<contribution(agent_id, partial_result)>> \o partial_results_list

\* partial_results_list.append(...)
append_contribution(partial_results_list, agent_id, partial_result) ==
    Append(partial_results_list, contribution(agent_id, partial_result))

RECURSIVE join(_, _)
\* sep.join(parts)
join(sep, parts) ==
    IF parts = <<>> THEN <<>>
    ELSE IF Len(parts) = 1 THEN Head(parts)
    ELSE Head(parts) \o <<sep>> \o join(sep, Tail(parts))

\* faulty variant of after_select: an empty selection is not short-circuited
after_select_always_derive(woken_agents) == "derive"

\* if not woken_agents: return ...
after_select(woken_agents) == IF woken_agents = <<>> THEN "done" ELSE "derive"

\* for agent in woken_agents: where control goes once i agents have had their turn
next_agent(i, woken_agents) ==
    IF i < Len(woken_agents) THEN "augment" ELSE "finalize"

\* the threads that call into the fabric, and the references of the trace dicts
Threads == {"t1", "t2"}
MainThread == "t1"
TraceRefs == {"r0", "r1", "r2"}

VARIABLES
    vault_claims,   \* vault id -> the _claims list of that MemoryVault
    last_call,      \* the latest direct get_slice call, with what it returned
    _agents,        \* AgentFabric._agents: agent id -> Agent
    _vaults,        \* AgentFabric._vaults: the ids whose vault is registered
    last_trace,     \* AgentFabric.last_trace: the reference it is bound to
    trace_dicts,    \* reference -> the trace dict it denotes
    frame,          \* thread -> its activation of handle_request
    llm_log,        \* thread -> the llm_call exchanges of its current request
    call_log        \* thread -> the calls and returns of its current request, in order

vars == <<vault_claims, last_call, _agents, _vaults, last_trace, trace_dicts, frame,
          llm_log, call_log>>
fabric_vars == <<_agents, _vaults, last_trace, trace_dicts, frame, llm_log, call_log>>

NoCall == [op |-> "none"]

\* a thread that is not inside handle_request
IdleFrame ==
    [pc |-> "idle", query |-> "", woken_agents |-> <<>>, base_beacons |-> EmptyDict,
     partial_results_list |-> <<>>, i |-> 1, agent_beacons |-> EmptyDict,
     slices_for_agent |-> <<>>, j |-> 1, response |-> <<>>, trace |-> "r0",
     own |-> "r0", replaced_ids |-> {}]

Init ==
    /\ vault_claims = [v \in VaultIds |-> <<>>]
    /\ last_call = NoCall
    /\ _agents = EmptyDict
    /\ _vaults = {}
    /\ last_trace = "r0"
    /\ trace_dicts = [r \in TraceRefs |-> EmptyDict]
    /\ frame = [t \in Threads |-> IdleFrame]
    /\ llm_log = [t \in Threads |-> <<>>]
    /\ call_log = [t \in Threads |-> <<>>]

\* vault.add_claim(claim)
AddClaim(v, claim) ==
    /\ Len(vault_claims[v]) < MaxVaultLen
    /\ vault_claims' = [vault_claims EXCEPT ![v] = add_claim(@, claim)]
    /\ UNCHANGED <<last_call, fabric_vars>>

\* vault.get_slice(beacon_query, max_claims), called directly.  The call is
\* "repeated" when the latest call had the same arguments and the vault is as
\* that call left it (nothing was appended in between).
GetSlice(v, beacon_query, max_claims) ==
    /\ vault_claims' = [vault_claims EXCEPT
                          ![v] = claims_after_get_slice(@, beacon_query, max_claims)]
    /\ last_call' =
         LET again == /\ last_call.op = "get_slice"
                      /\ last_call.vault_id = v
                      /\ last_call.beacon_query = beacon_query
                      /\ last_call.max_claims = max_claims
                      /\ last_call.claims = vault_claims[v]
         IN  [op |-> "get_slice", vault_id |-> v, beacon_query |-> beacon_query,
              max_claims |-> max_claims,
              result |-> get_slice(vault_claims[v], beacon_query, max_claims),
              claims |-> vault_claims'[v],
              repeated |-> again,
              previous |-> IF again THEN last_call.result ELSE <<>>]
    /\ UNCHANGED fabric_vars

VaultNext ==
    \/ \E v \in VaultIds, claim \in ClaimPool : AddClaim(v, claim)
    \/ \E v \in VaultIds, q \in QueryPool, n \in Limits : GetSlice(v, q, n)

\* a client that only uses one vault directly
SpecVault == Init /\ [][VaultNext]_vars


(***************************************************************************)
(* AgentFabric: registration and handle_request                            *)
(***************************************************************************)
\* the trace dicts something still refers to: self.last_trace and returned traces
LiveRefs(bound, frames) ==
    {bound} \cup {frames[t].trace : t \in {u \in Threads : frames[u].pc = "done"}}
            \cup {trace_of_call(bound, frames[t].own) :
                      t \in {u \in Threads : frames[u].pc \notin {"idle", "done"}}}

\* a dict nothing refers to is reclaimed
Collect(dicts, live) == [r \in TraceRefs |-> IF r \in live THEN dicts[r] ELSE EmptyDict]

\* no thread is inside handle_request or holds its result
Quiescent == \A t \in Threads : frame[t].pc = "idle"

\* fabric.register_agent(agent)
RegisterAgent(agent) ==
    /\ _agents' = DictPut(_agents, agent.id, agent)
    /\ UNCHANGED <<vault_claims, last_call, _vaults, last_trace, trace_dicts, frame,
                   llm_log, call_log>>

\* fabric.register_vault(vault)
RegisterVault(v) ==
    /\ _vaults' = _vaults \cup {v}
    /\ UNCHANGED <<vault_claims, last_call, _agents, last_trace, trace_dicts, frame,
                   llm_log, call_log>>

\* handle_request, entry: self.last_trace = {...}
Start(t, query) ==
    /\ frame[t].pc = "idle"
    /\ LET ref == CHOOSE r \in TraceRefs : r \notin LiveRefs(last_trace, frame)
           old == trace_dicts[last_trace]
       IN  /\ last_trace' = ref
           /\ trace_dicts' = Collect([trace_dicts EXCEPT ![ref] = new_trace(query, old)],
                                     LiveRefs(ref, frame))
           /\ frame' = [frame EXCEPT ![t] =
                          [IdleFrame EXCEPT
                             !.pc = "select", !.query = query, !.own = ref,
                             !.replaced_ids =
                                 IF DOMAIN old = {} THEN {}
                                 ELSE DOMAIN old.partial_results]]
    /\ llm_log' = [llm_log EXCEPT ![t] = <<>>]
    /\ call_log' = [call_log EXCEPT ![t] = <<>>]
    /\ UNCHANGED <<vault_claims, last_call, _agents, _vaults>>

\* woken_agents = self.gatekeeper_strategy(...), and the early return
Select(t) ==
    /\ frame[t].pc = "select"
    /\ \E woken \in Selections(_agents) :
         /\ trace_dicts' = [trace_dicts EXCEPT
                              ![trace_of_call(last_trace, frame[t].own)].woken_agents = woken]
         /\ frame' = IF after_select(woken) = "done"
                     THEN [frame EXCEPT ![t].woken_agents = woken, ![t].pc = "done",
                                        ![t].response = NoAgentMessage,
                                        ![t].trace = trace_of_call(last_trace, frame[t].own)]
                     ELSE [frame EXCEPT ![t].woken_agents = woken, ![t].pc = "derive"]
         /\ call_log' = [call_log EXCEPT
                           ![t] = IF after_select(woken) = "done"
                                  THEN @ \o <<[op |-> "gatekeeper_strategy"],
                                              [op |-> "return", at |-> "no agent"]>>
                                  ELSE Append(@, [op |-> "gatekeeper_strategy"])]
    /\ UNCHANGED <<vault_claims, last_call, _agents, _vaults, last_trace, llm_log>>

\* base_beacons = self.beacon_strategy(query); partial_results_list = []
Derive(t) ==
    /\ frame[t].pc = "derive"
    /\ \E base \in BaseBeacons(frame[t].query) :
         /\ trace_dicts' = [trace_dicts EXCEPT
                              ![trace_of_call(last_trace, frame[t].own)].base_beacons = base]
         /\ frame' = [frame EXCEPT ![t].base_beacons = base,
                                   ![t].partial_results_list = <<>>,
                                   ![t].i = 1,
                                   ![t].pc = next_agent(0, frame[t].woken_agents)]
    /\ call_log' = [call_log EXCEPT ![t] = Append(@, [op |-> "beacon_strategy"])]
    /\ UNCHANGED <<vault_claims, last_call, _agents, _vaults, last_trace, llm_log>>

\* agent_beacons = self.slice_augmentation_strategy(agent, base_beacons); slices_for_agent = {}
Augment(t) ==
    /\ frame[t].pc = "augment"
    /\ LET agent == frame[t].woken_agents[frame[t].i]
       IN  \E beacons \in AgentBeacons(agent, frame[t].base_beacons) :
             frame' = [frame EXCEPT ![t].agent_beacons = beacons,
                                    ![t].slices_for_agent = <<>>,
                                    ![t].j = 1,
                                    ![t].pc = IF agent.vault_ids = <<>> THEN "run"
                                              ELSE "slices"]
    /\ call_log' = [call_log EXCEPT
                      ![t] = Append(@, [op |-> "slice_augmentation_strategy",
                                        k |-> frame[t].i])]
    /\ UNCHANGED <<vault_claims, last_call, _agents, _vaults, last_trace, trace_dicts, llm_log>>

\* one turn of: for vault_id in agent.vault_ids
Retrieve(t) ==
    /\ frame[t].pc = "slices"
    /\ LET agent == frame[t].woken_agents[frame[t].i]
           vault_id == agent.vault_ids[frame[t].j]
       IN  /\ frame' = [frame EXCEPT
                          ![t].slices_for_agent =
                              slice_for_vault(@, vault_id, _vaults, vault_claims,
                                              frame[t].agent_beacons),
                          ![t].j = @ + 1,
                          ![t].pc = IF vault_lookup(vault_id, _vaults) = "KeyError"
                                    THEN "error"
                                    ELSE IF frame[t].j < Len(agent.vault_ids)
                                    THEN "slices" ELSE "run"]
           /\ call_log' = [call_log EXCEPT
                             ![t] = IF vault_lookup(vault_id, _vaults) = "vault"
                                    THEN Append(@, [op |-> "get_slice", k |-> frame[t].i,
                                                    vault_id |-> vault_id])
                                    ELSE @]
           /\ vault_claims' =
                IF vault_id \in _vaults
                THEN [vault_claims EXCEPT
                        ![vault_id] = claims_after_get_slice(@, frame[t].agent_beacons,
                                                             DefaultMaxClaims)]
                ELSE vault_claims
    /\ UNCHANGED <<last_call, _agents, _vaults, last_trace, trace_dicts, llm_log>>

\* the slices are recorded, the agent is run, its result recorded and labeled
RunAgent(t) ==
    /\ frame[t].pc = "run"
    /\ LET agent == frame[t].woken_agents[frame[t].i]
           prompt == prompt_of(agent, frame[t].query, frame[t].slices_for_agent)
       IN  \E partial_result \in llm_call(prompt) :
             /\ trace_dicts' =
                  [trace_dicts EXCEPT
                     ![trace_of_call(last_trace, frame[t].own)].slices_per_agent =
                         record_slices(@, agent.id, frame[t].slices_for_agent),
                     ![trace_of_call(last_trace, frame[t].own)].partial_results =
                         record_result(@, agent.id, partial_result)]
             /\ frame' = [frame EXCEPT
                            ![t].partial_results_list =
                                append_contribution(@, agent.id, partial_result),
                            ![t].i = @ + 1,
                            ![t].pc = next_agent(frame[t].i, frame[t].woken_agents)]
             /\ llm_log' = [llm_log EXCEPT
                              ![t] = Append(@, [agent |-> agent, prompt |-> prompt,
                                                text |-> partial_result,
                                                beacons |-> frame[t].agent_beacons,
                                                slices |-> frame[t].slices_for_agent])]
    /\ call_log' = [call_log EXCEPT ![t] = Append(@, [op |-> "run", k |-> frame[t].i])]
    /\ UNCHANGED <<vault_claims, last_call, _agents, _vaults, last_trace>>

\* final_response = "\n\n".join(partial_results_list); return
Finalize(t) ==
    /\ frame[t].pc = "finalize"
    /\ frame' = [frame EXCEPT ![t].response = join("\n\n", frame[t].partial_results_list),
                              ![t].trace = trace_of_call(last_trace, frame[t].own),
                              ![t].pc = "done"]
    /\ call_log' = [call_log EXCEPT ![t] = Append(@, [op |-> "return", at |-> "finalize"])]
    /\ UNCHANGED <<vault_claims, last_call, _agents, _vaults, last_trace, trace_dicts, llm_log>>

\* the caller drops the (response, trace) pair it received
Discard(t) ==
    /\ frame[t].pc = "done"
    /\ frame' = [frame EXCEPT ![t] = IdleFrame]
    /\ llm_log' = [llm_log EXCEPT ![t] = <<>>]
    /\ call_log' = [call_log EXCEPT ![t] = <<>>]
    /\ trace_dicts' = Collect(trace_dicts, LiveRefs(last_trace, frame'))
    /\ UNCHANGED <<vault_claims, last_call, _agents, _vaults, last_trace>>

\* a single-threaded program: one operation at a time, all from the main thread
Next ==
    \/ Quiescent /\ \E agent \in AgentPool : RegisterAgent(agent)
    \/ Quiescent /\ \E v \in VaultIds : RegisterVault(v)
    \/ Quiescent /\ \E v \in VaultIds, claim \in ClaimPool : AddClaim(v, claim)
    \/ Quiescent /\ \E query \in QuerySet : Start(MainThread, query)
    \/ Select(MainThread)
    \/ Derive(MainThread)
    \/ Augment(MainThread)
    \/ Retrieve(MainThread)
    \/ RunAgent(MainThread)
    \/ Finalize(MainThread)
    \/ Discard(MainThread)

Spec == Init /\ [][Next]_vars

\* thread t is inside handle_request
InRequest(t) == frame[t].pc \notin {"idle", "done", "error"}

\* one step of the body of handle_request in thread t
Step(t) ==
    \/ Select(t)
    \/ Derive(t)
    \/ Augment(t)
    \/ Retrieve(t)
    \/ RunAgent(t)
    \/ Finalize(t)

(***************************************************************************)
(* A fabric that is set up and then serves one request after the other     *)
(***************************************************************************)
\* any registry: any of the agents, the vault registered or not, empty or with
\* one claim
RegistryInit ==
    /\ vault_claims \in [VaultIds -> {<<>>} \cup {<<c>> : c \in ClaimPool}]
    /\ last_call = NoCall
    /\ _agents \in {[id \in ids |-> CHOOSE a \in AgentPool : a.id = id] :
                        ids \in SUBSET AgentIds}
    /\ _vaults \in SUBSET VaultIds
    /\ last_trace = "r0"
    /\ trace_dicts = [r \in TraceRefs |-> EmptyDict]
    /\ frame = [t \in Threads |-> IdleFrame]
    /\ llm_log = [t \in Threads |-> <<>>]
    /\ call_log = [t \in Threads |-> <<>>]

\* one request after the other from the main thread
ServeNext ==
    \/ \E query \in QuerySet : Start(MainThread, query)
    \/ Step(MainThread)
    \/ Discard(MainThread)

\* the strategies, the vaults and the generator return, so a request that can
\* take its next step does take it
SpecServe == RegistryInit /\ [][ServeNext]_vars /\ WF_vars(Step(MainThread))

(***************************************************************************)
(* Two threads calling handle_request on one fabric                        *)
(***************************************************************************)
\* a fabric set up before the threads start: the agent that reads vaults and
\* the vault are registered, the vault holds one claim
ConfiguredInit ==
    /\ vault_claims = [v \in VaultIds |->
                          <<CHOOSE c \in ClaimPool : DOMAIN c.beacons = {"topic"}>>]
    /\ last_call = NoCall
    /\ _agents = [id \in {a.id : a \in {b \in AgentPool : b.vault_ids # <<>>}} |->
                      CHOOSE a \in AgentPool : a.id = id]
    /\ _vaults = VaultIds
    /\ last_trace = "r0"
    /\ trace_dicts = [r \in TraceRefs |-> EmptyDict]
    /\ frame = [t \in Threads |-> IdleFrame]
    /\ llm_log = [t \in Threads |-> <<>>]
    /\ call_log = [t \in Threads |-> <<>>]

\* the query each thread asks, a different one each
QueryOf(t) ==
    IF t = MainThread THEN CHOOSE q \in QuerySet : TRUE
    ELSE CHOOSE q \in QuerySet : q # (CHOOSE p \in QuerySet : TRUE)

\* each thread makes one call of handle_request, the main thread first and the
\* other while that call is running; the steps of the two calls interleave in
\* any order
ConcurrentNext ==
    \E t \in Threads :
        \/ (t = MainThread \/ InRequest(MainThread)) /\ Start(t, QueryOf(t))
        \/ Step(t)

SpecConcurrent == ConfiguredInit /\ [][ConcurrentNext]_vars

(***************************************************************************)
(* Requests against a vault that holds more claims than one retrieval      *)
(* returns                                                                 *)
(***************************************************************************)
\* the lengths of such a vault
LongVaultLens == (DefaultMaxClaims + 1)..(DefaultMaxClaims + 2)

\* a fabric set up with the agent that reads vaults and with the vault, which
\* was filled by add_claim beyond the default limit of get_slice
LongInit ==
    /\ vault_claims \in [VaultIds -> UNION {[1..n -> ClaimPool] : n \in LongVaultLens}]
    /\ last_call = NoCall
    /\ _agents = [id \in {a.id : a \in {b \in AgentPool : b.vault_ids # <<>>}} |->
                      CHOOSE a \in AgentPool : a.id = id]
    /\ _vaults = VaultIds
    /\ last_trace = "r0"
    /\ trace_dicts = [r \in TraceRefs |-> EmptyDict]
    /\ frame = [t \in Threads |-> IdleFrame]
    /\ llm_log = [t \in Threads |-> <<>>]
    /\ call_log = [t \in Threads |-> <<>>]

SpecLong == LongInit /\ [][ServeNext]_vars

(***************************************************************************)
(* Agent.run called directly, with any slice mapping                       *)
(***************************************************************************)
\* the vault ids a mapping may be keyed by
SliceKeys == {"V1", "V2"}

\* the lists of claims a mapping may hold
SliceValues == UNION {[1..n -> ClaimPool] : n \in 0..MaxSliceLen}

\* slices: Dict[str, List[Claim]], a dict in insertion order with distinct keys
SliceMappings ==
    LET keys == {ks \in UNION {[1..n -> SliceKeys] : n \in 0..Cardinality(SliceKeys)} :
                    \A a, b \in 1..Len(ks) : ks[a] = ks[b] => a = b}
    IN  UNION {{[n \in 1..Len(ks) |-> [key |-> ks[n], val |-> vals[n]]] :
                    vals \in [1..Len(ks) -> SliceValues]} : ks \in keys}

\* agent.run(query, slices)
Run(agent, query, slices) ==
    /\ \E result \in llm_call(prompt_of(agent, query, slices)) :
           last_call' = [op |-> "run", agent |-> agent, query |-> query,
                         slices |-> slices,
                         prompt |-> prompt_of(agent, query, slices),
                         result |-> result]
    /\ UNCHANGED <<vault_claims, fabric_vars>>

RunNext ==
    \E agent \in AgentPool, query \in QuerySet, slices \in SliceMappings :
        Run(agent, query, slices)

\* a client that only calls Agent.run
SpecRun == Init /\ [][RunNext]_vars

(***************************************************************************)
(* Properties of MemoryVault, checked under SpecVault                      *)
(***************************************************************************)
\* tags is a superset of tag_query under exact key/value equality
TagsCover(tags, tag_query) ==
    \A key \in DOMAIN tag_query : key \in DOMAIN tags /\ tags[key] = tag_query[key]

\* the last n elements of s (all of s when it has fewer)
LastN(s, n) == SubSeq(s, Len(s) - Min(n, Len(s)) + 1, Len(s))

\* the claims of the sequence that satisfy tag_query, in insertion order
MatchSeq(claims, tag_query) ==
    SelectSeq(claims, LAMBDA c : TagsCover(c.beacons, tag_query))

Called == last_call.op = "get_slice"

\* C1: with limit >= 1, every claim get_slice returns is a claim of the vault
\* whose tags contain every key of tag_query with an equal value; with an empty
\* tag_query the result is the most recent `limit` claims of the vault.
C1_ReturnsOnlyMatchingClaims ==
    (Called /\ last_call.max_claims >= 1) =>
        /\ \A k \in 1..Len(last_call.result) :
             /\ \E n \in 1..Len(last_call.claims) :
                    last_call.claims[n] = last_call.result[k]
             /\ TagsCover(last_call.result[k].beacons, last_call.beacon_query)
        /\ last_call.beacon_query = EmptyDict =>
               last_call.result = LastN(last_call.claims, last_call.max_claims)

\* a filtering call that returned some claims of the vault and left one out
C1_Witness ==
    /\ Called
    /\ last_call.max_claims >= 1
    /\ last_call.beacon_query # EmptyDict
    /\ last_call.result # <<>>
    /\ \E n \in 1..Len(last_call.claims) :
           ~TagsCover(last_call.claims[n].beacons, last_call.beacon_query)

\* C2: with limit >= 1, get_slice returns exactly the last min(limit, m) of the
\* m matching claims, in insertion order; all m of them when m < limit.
C2_TailOfMatches ==
    (Called /\ last_call.max_claims >= 1) =>
        LET ms == MatchSeq(last_call.claims, last_call.beacon_query)
        IN  /\ last_call.result = LastN(ms, last_call.max_claims)
            /\ Len(ms) < last_call.max_claims => last_call.result = ms

\* more claims match than the limit allows, and not every claim matches
C2_Witness ==
    /\ Called
    /\ last_call.max_claims >= 1
    /\ Len(MatchSeq(last_call.claims, last_call.beacon_query)) > last_call.max_claims
    /\ Len(last_call.claims) > Len(MatchSeq(last_call.claims, last_call.beacon_query))

\* C3 (as claimed): get_slice called with limit <= 0 returns the empty sequence.
C3_NonPositiveLimitReturnsNone ==
    (Called /\ last_call.max_claims <= 0) => last_call.result = <<>>

\* C8: two successive get_slice calls with the same arguments, with no
\* add_claim between them, return identical ordered sequences.
C8_GetSliceIdempotent ==
    (Called /\ last_call.repeated) => last_call.result = last_call.previous

\* a repeated call that returned claims
C8_Witness ==
    /\ Called
    /\ last_call.repeated
    /\ last_call.result # <<>>
    /\ Len(last_call.result) < Len(last_call.claims)

\* C9: if claim c satisfies tag_query and get_slice(tag_query, limit) returned
\* fewer than limit claims before add_claim(c), then after add_claim(c) the same
\* call returns the previous result followed by c.
C9_AppendMonotonic ==
    [][\A v \in VaultIds, c \in ClaimPool :
         AddClaim(v, c) =>
             \A q \in QueryPool, n \in Limits :
                 ( /\ TagsCover(c.beacons, q)
                   /\ Len(get_slice(vault_claims[v], q, n)) < n )
                 => get_slice(vault_claims'[v], q, n)
                        = Append(get_slice(vault_claims[v], q, n), c)]_vars

\* a claim was appended behind claims that a query it satisfies had returned,
\* fewer than the limit, while another claim of the vault does not match
C9_Witness ==
    \E v \in VaultIds :
        /\ Len(vault_claims[v]) >= 2
        /\ LET before == SubSeq(vault_claims[v], 1, Len(vault_claims[v]) - 1)
               c == vault_claims[v][Len(vault_claims[v])]
           IN  \E q \in QueryPool, n \in Limits :
                   /\ TagsCover(c.beacons, q)
                   /\ get_slice(before, q, n) # <<>>
                   /\ Len(get_slice(before, q, n)) < n
                   /\ Len(get_slice(before, q, n)) < Len(before)

(***************************************************************************)
(* Properties of AgentFabric.handle_request, checked under Spec            *)
(***************************************************************************)
\* handle_request has returned to thread t
Returned(t) == frame[t].pc = "done"

\* the trace of the pair handle_request returned to thread t
ReturnedTrace(t) == trace_dicts[frame[t].trace]

\* the ids of the agents of a selection
IdsOf(selection) == {selection[k].id : k \in 1..Len(selection)}

\* the generator exchange of the latest run, in thread t's request, of agent id
LatestRun(t, id) ==
    llm_log[t][CHOOSE k \in 1..Len(llm_log[t]) :
                  /\ llm_log[t][k].agent.id = id
                  /\ \A m \in (k + 1)..Len(llm_log[t]) : llm_log[t][m].agent.id # id]

\* the response is n labeled contributions, the k-th for selection[k] with the
\* k-th generated text, joined by blank lines
LabeledInOrder(response, selection, texts) ==
    /\ Len(response) = 5 * Len(selection) - 1
    /\ \A k \in 1..Len(selection) :
         SubSeq(response, 5 * k - 4, 5 * k - 1)
             = <<"--- Contribution from ", selection[k].id, " ---\n", texts[k]>>
    /\ \A k \in 1..(Len(selection) - 1) : response[5 * k] = "\n\n"

\* C4: for a selection [a1..an], n >= 1, the final response is exactly n labeled
\* contributions joined by a blank line, the k-th being the label of ak followed
\* by the text the generator returned for ak's run, in selection order.
C4_ContributionsInSelectionOrder ==
    \A t \in Threads :
        (Returned(t) /\ frame[t].woken_agents # <<>>) =>
            /\ Len(llm_log[t]) = Len(frame[t].woken_agents)
            /\ \A k \in 1..Len(llm_log[t]) :
                   llm_log[t][k].agent = frame[t].woken_agents[k]
            /\ LabeledInOrder(frame[t].response, frame[t].woken_agents,
                              [k \in 1..Len(llm_log[t]) |-> llm_log[t][k].text])

\* a request that selected two different agents whose generations differ
C4_Witness ==
    \E t \in Threads :
        /\ Returned(t)
        /\ Len(frame[t].woken_agents) = 2
        /\ frame[t].woken_agents[1].id # frame[t].woken_agents[2].id
        /\ llm_log[t][1].text # llm_log[t][2].text

\* C5: when the selection is empty, handle_request returns the fixed "no agent
\* found" message and a trace whose partial_results, slices_per_agent and
\* base_beacons are empty and whose query is the request's query.
C5_EmptySelectionShortCircuits ==
    \A t \in Threads :
        (Returned(t) /\ frame[t].woken_agents = <<>>) =>
            /\ frame[t].response = NoAgentMessage
            /\ llm_log[t] = <<>>
            /\ ReturnedTrace(t).query = frame[t].query
            /\ ReturnedTrace(t).woken_agents = <<>>
            /\ ReturnedTrace(t).base_beacons = EmptyDict
            /\ ReturnedTrace(t).slices_per_agent = EmptyDict
            /\ ReturnedTrace(t).partial_results = EmptyDict

\* an empty selection with agents and a vault registered, in a request that
\* replaced the trace of a request with partial results
C5_Witness ==
    \E t \in Threads :
        /\ Returned(t)
        /\ frame[t].woken_agents = <<>>
        /\ frame[t].replaced_ids # {}
        /\ DOMAIN _agents = AgentIds
        /\ _vaults # {}

\* C6: after a completed request, for every selected agent A the keys of
\* slices_per_agent[A.id] are exactly the vault_ids of A that are registered,
\* and A was run whether or not one of its ids is unregistered.
C6_SliceKeysAreRegisteredVaults ==
    \A t \in Threads :
        (Returned(t) /\ frame[t].woken_agents # <<>>) =>
            \A k \in 1..Len(frame[t].woken_agents) :
                LET agent == frame[t].woken_agents[k]
                IN  /\ agent.id \in DOMAIN ReturnedTrace(t).slices_per_agent
                    /\ OrderedKeys(ReturnedTrace(t).slices_per_agent[agent.id])
                           = {agent.vault_ids[m] : m \in 1..Len(agent.vault_ids)}
                                 \cap _vaults
                    /\ agent.id \in DOMAIN ReturnedTrace(t).partial_results
                    /\ \E m \in 1..Len(llm_log[t]) : llm_log[t][m].agent = agent

\* an agent with a registered and an unregistered vault id was selected
C6_Witness ==
    \E t \in Threads :
        /\ Returned(t)
        /\ \E k \in 1..Len(frame[t].woken_agents) :
             LET agent == frame[t].woken_agents[k]
             IN  /\ \E m \in 1..Len(agent.vault_ids) : agent.vault_ids[m] \in _vaults
                 /\ \E m \in 1..Len(agent.vault_ids) : agent.vault_ids[m] \notin _vaults
                 /\ OrderedKeys(ReturnedTrace(t).slices_per_agent[agent.id]) = {"V1"}

\* C7: if the generator returns its error marker for a selected agent, every
\* later agent is still run, the response holds one labeled contribution per
\* selected agent in selection order, the failing one with the marker verbatim,
\* and the slices and partial results recorded for the agents are those of
\* their own retrievals and generations.
C7_GenerationFailureIsIsolated ==
    \A t \in Threads :
        (Returned(t) /\ \E k \in 1..Len(llm_log[t]) : llm_log[t][k].text = ErrorMarker) =>
            /\ Len(llm_log[t]) = Len(frame[t].woken_agents)
            /\ Len(frame[t].response) = 5 * Len(frame[t].woken_agents) - 1
            /\ \A k \in 1..Len(frame[t].woken_agents) :
                 /\ frame[t].response[5 * k - 4] = "--- Contribution from "
                 /\ frame[t].response[5 * k - 3] = frame[t].woken_agents[k].id
                 /\ llm_log[t][k].text = ErrorMarker
                        => frame[t].response[5 * k - 1] = ErrorMarker
            /\ \A id \in IdsOf(frame[t].woken_agents) :
                 /\ ReturnedTrace(t).partial_results[id] = LatestRun(t, id).text
                 /\ LET slices == ReturnedTrace(t).slices_per_agent[id]
                    IN  \A n \in 1..Len(slices) :
                            slices[n].val = get_slice(vault_claims[slices[n].key],
                                                      LatestRun(t, id).beacons,
                                                      DefaultMaxClaims)

\* the first of two agents failed and the second succeeded
C7_Witness ==
    \E t \in Threads :
        /\ Returned(t)
        /\ Len(llm_log[t]) = 2
        /\ llm_log[t][1].text = ErrorMarker
        /\ llm_log[t][2].text # ErrorMarker
        /\ llm_log[t][1].agent.id # llm_log[t][2].agent.id
        /\ \E n \in 1..Len(llm_log[t][2].slices) : llm_log[t][2].slices[n].val # <<>>

\* C10: after any sequence of handle_request calls, last_trace describes only
\* the most recent request: its query, its selection, its base beacons, and
\* slices and partial results of its selected agents only.
C10_LastTraceIsOfLatestRequest ==
    \A t \in Threads :
        Returned(t) =>
            LET trace == trace_dicts[last_trace]
            IN  /\ trace.query = frame[t].query
                /\ trace.woken_agents = frame[t].woken_agents
                /\ trace.base_beacons = IF frame[t].woken_agents = <<>> THEN EmptyDict
                                        ELSE frame[t].base_beacons
                /\ DOMAIN trace.slices_per_agent = IdsOf(frame[t].woken_agents)
                /\ DOMAIN trace.partial_results = IdsOf(frame[t].woken_agents)
                /\ \A id \in IdsOf(frame[t].woken_agents) :
                     /\ trace.partial_results[id] = LatestRun(t, id).text
                     /\ trace.slices_per_agent[id] = LatestRun(t, id).slices

\* a request that did not select agent A replaced a trace holding results of A
C10_Witness ==
    \E t \in Threads :
        /\ Returned(t)
        /\ frame[t].woken_agents # <<>>
        /\ "A" \in frame[t].replaced_ids
        /\ "A" \notin IdsOf(frame[t].woken_agents)

\* s is a prefix of r
IsPrefix(s, r) == Len(s) <= Len(r) /\ SubSeq(r, 1, Len(s)) = s

\* C11: vaults are append-only: in every step each vault's earlier sequence is a
\* prefix of its later one; add_claim lengthens it by exactly one, even for a
\* claim already present; get_slice and handle_request leave every vault as it was.
C11_VaultsAreAppendOnly ==
    [][ /\ \A v \in VaultIds : IsPrefix(vault_claims[v], vault_claims'[v])
        /\ \A v \in VaultIds, c \in ClaimPool :
               AddClaim(v, c) => /\ Len(vault_claims'[v]) = Len(vault_claims[v]) + 1
                                 /\ vault_claims'[v][Len(vault_claims'[v])] = c
        /\ (frame' # frame \/ last_call' # last_call) => vault_claims' = vault_claims
      ]_vars

\* a request retrieved from a vault that holds the same claim twice
C11_Witness ==
    \E t \in Threads, v \in VaultIds :
        /\ Returned(t)
        /\ \E n \in 1..Len(call_log[t]) :
               call_log[t][n].op = "get_slice" /\ call_log[t][n].vault_id = v
        /\ \E n, m \in 1..Len(vault_claims[v]) :
               n < m /\ vault_claims[v][n] = vault_claims[v][m]
        /\ Len(vault_claims[v]) = MaxVaultLen

\* the places in thread t's call log of the calls of op, and of those for the
\* k-th selected agent
CallsOf(t, op) == {n \in 1..Len(call_log[t]) : call_log[t][n].op = op}
AgentCallsOf(t, op, k) == {n \in CallsOf(t, op) : call_log[t][n].k = k}

\* the place of a call in the order of the pipeline: the selection, the tag
\* derivation, then for the k-th agent its augmentation, its retrievals and its
\* run, and the return last
Rank(call) ==
    CASE call.op = "gatekeeper_strategy" -> 0
      [] call.op = "beacon_strategy" -> 1
      [] call.op = "slice_augmentation_strategy" -> 3 * call.k
      [] call.op = "get_slice" -> 3 * call.k + 1
      [] call.op = "run" -> 3 * call.k + 2
      [] call.op = "return" -> 3 * MaxSelect + 3

\* C12: within one handle_request the selection strategy is called exactly once
\* and first; the beacon strategy exactly once, after it, and not at all when
\* the selection is empty; for each selected agent the augmentation precedes all
\* of its vault retrievals, which precede its run; and the run of the k-th agent
\* precedes the augmentation of the (k+1)-th.
C12_PipelineOrder ==
    \A t \in Threads :
        LET log == call_log[t]
            n_agents == Len(frame[t].woken_agents)
        IN  /\ frame[t].pc \in {"idle", "select"} => log = <<>>
            /\ frame[t].pc \notin {"idle", "select"} => log[1].op = "gatekeeper_strategy"
            \* in pipeline order, and nothing but a retrieval is called twice
            /\ \A n \in 1..(Len(log) - 1) :
                   \/ Rank(log[n]) < Rank(log[n + 1])
                   \/ /\ log[n].op = "get_slice"
                      /\ log[n + 1].op = "get_slice"
                      /\ log[n].k = log[n + 1].k
            /\ \A n \in 1..Len(log) :
                   /\ log[n].op \in {"slice_augmentation_strategy", "get_slice", "run"}
                          => log[n].k \in 1..n_agents
                   \* a retrieval and a run come with the augmentation of their agent
                   /\ log[n].op \in {"get_slice", "run"}
                          => \E m \in 1..(n - 1) :
                                 /\ log[m].op = "slice_augmentation_strategy"
                                 /\ log[m].k = log[n].k
                   \* the agent before has run
                   /\ (log[n].op = "slice_augmentation_strategy" /\ log[n].k > 1)
                          => \E m \in 1..(n - 1) :
                                 log[m].op = "run" /\ log[m].k = log[n].k - 1
                   /\ log[n].op = "beacon_strategy" => n = 2 /\ n_agents > 0
            /\ (frame[t].pc \in {"augment", "slices", "run", "finalize"}
                  \/ (Returned(t) /\ n_agents > 0))
                   => log[2].op = "beacon_strategy"
            /\ (Returned(t) /\ n_agents > 0)
                   => \A k \in 1..n_agents :
                          /\ AgentCallsOf(t, "slice_augmentation_strategy", k) # {}
                          /\ AgentCallsOf(t, "run", k) # {}
            /\ (Returned(t) /\ n_agents = 0) => CallsOf(t, "beacon_strategy") = {}

\* a finished request of two agents, the first of which retrieved from a vault
C12_Witness ==
    \E t \in Threads :
        /\ Returned(t)
        /\ Len(frame[t].woken_agents) = 2
        /\ AgentCallsOf(t, "get_slice", 1) # {}
        /\ AgentCallsOf(t, "run", 2) # {}

\* the context part of a prompt: what lies between its five heading tokens and
\* its closing instruction
ContextIn(prompt) == SubSeq(prompt, 6, Len(prompt) - 1)

\* every slice of the ordered mapping is empty (or the mapping has no entry)
AllEmpty(slices) == \A n \in 1..Len(slices) : slices[n].val = <<>>

\* C13: the generator is invoked exactly once per entry of the selection, in
\* order, and never for an agent that was not selected; an agent whose slices
\* are all empty, or that has no registered vault, is still invoked, with the
\* "no information found" marker as its context.
C13_OneGenerationPerSelectedAgent ==
    \A t \in Threads :
        /\ Len(llm_log[t]) <= Len(frame[t].woken_agents)
        /\ Len(llm_log[t]) = Cardinality(CallsOf(t, "run"))
        /\ \A k \in 1..Len(llm_log[t]) :
               /\ llm_log[t][k].agent = frame[t].woken_agents[k]
               /\ AllEmpty(llm_log[t][k].slices)
                      => ContextIn(llm_log[t][k].prompt) = <<NoInfoMarker>>
        /\ Returned(t) => Len(llm_log[t]) = Len(frame[t].woken_agents)

\* a finished request that ran an agent without any vault, and an agent whose
\* only registered vault gave it an empty slice
C13_Witness ==
    \E t \in Threads :
        /\ Returned(t)
        /\ Len(frame[t].woken_agents) = 2
        /\ \E k \in 1..2 : /\ llm_log[t][k].agent.vault_ids = <<>>
                           /\ llm_log[t][k].slices = <<>>
        /\ \E k \in 1..2 : /\ llm_log[t][k].agent.vault_ids # <<>>
                           /\ llm_log[t][k].slices # <<>>
                           /\ AllEmpty(llm_log[t][k].slices)

\* the number of context tokens one entry of a slice mapping is rendered to, and
\* the number the first n entries are rendered to
BlockLen(entry) == IF entry.val = <<>> THEN 0 ELSE 3 + 3 * Len(entry.val)
RECURSIVE BlocksLen(_, _)
BlocksLen(slices, n) ==
    IF n = 0 THEN 0 ELSE BlocksLen(slices, n - 1) + BlockLen(slices[n])

\* C14: the context section of the prompt of Agent.run holds, in the mapping's
\* order, one block per vault with a non-empty slice (a header with the vault id,
\* then one line per claim content in slice order) and nothing for a vault with
\* an empty slice; the "no information found" marker appears exactly when every
\* slice is empty or the mapping is empty, so the context is never empty.
C14_ContextBlocks ==
    last_call.op = "run" =>
        LET slices == last_call.slices
            context == ContextIn(last_call.prompt)
        IN  /\ context # <<>>
            /\ (\E n \in 1..Len(context) : context[n] = NoInfoMarker) <=> AllEmpty(slices)
            /\ AllEmpty(slices) => context = <<NoInfoMarker>>
            /\ ~AllEmpty(slices) => Len(context) = BlocksLen(slices, Len(slices))
            /\ \A n \in 1..Len(slices) :
                 slices[n].val # <<>> =>
                   LET at == BlocksLen(slices, n - 1)
                   IN  /\ SubSeq(context, at + 1, at + 3)
                            = <<"\n--- Context from ", slices[n].key, " ---\n">>
                       /\ \A q \in 1..Len(slices[n].val) :
                            SubSeq(context, at + 3 * q + 1, at + 3 * q + 3)
                                = <<"- ", slices[n].val[q].content, "\n">>

\* Agent.run was given an empty slice followed by a slice of two different claims
C14_Witness ==
    /\ last_call.op = "run"
    /\ Len(last_call.slices) = 2
    /\ last_call.slices[1].val = <<>>
    /\ Len(last_call.slices[2].val) = 2
    /\ last_call.slices[2].val[1] # last_call.slices[2].val[2]

\* C15: provided the strategies and the generator return, every handle_request
\* terminates with a (response, trace) pair through exactly one of two exits,
\* the empty-selection short-circuit or the final join, and never reaches an
\* error state, whatever the query, the registry, the vault ids of the agents
\* and the generated texts.
C15_RequestsTerminate ==
    /\ [](\A t \in Threads : frame[t].pc # "error")
    /\ \A t \in Threads : InRequest(t) ~> Returned(t)
    /\ [](\A t \in Threads :
            Returned(t) =>
              /\ CallsOf(t, "return") = {Len(call_log[t])}
              /\ call_log[t][Len(call_log[t])].at
                   = (IF frame[t].woken_agents = <<>> THEN "no agent" ELSE "finalize")
              /\ frame[t].response # <<>>
              /\ DOMAIN ReturnedTrace(t) # {})

\* a request returned through the final join although its agent named a vault
\* id that is not registered and the generator failed
C15_Witness ==
    \E t \in Threads :
        /\ Returned(t)
        /\ call_log[t][Len(call_log[t])].at = "finalize"
        /\ \E k \in 1..Len(llm_log[t]) :
               /\ llm_log[t][k].text = ErrorMarker
               /\ \E n \in 1..Len(llm_log[t][k].agent.vault_ids) :
                      llm_log[t][k].agent.vault_ids[n] \notin _vaults

\* C16: last_trace is not safe for concurrent requests.  Every step of a running
\* call writes to, and every return hands out, the dict last_trace is bound to at
\* that moment, which is the dict of whichever call entered last; so with two
\* interleaved calls one writes its selection, slices and partial results into
\* the trace the other created and returns a trace whose query is not its own.
C16_CallsShareLastTrace ==
    [][\A t \in Threads :
         /\ (frame[t].pc = "idle" /\ frame'[t].pc # "idle")
               => /\ last_trace' = frame'[t].own
                  /\ trace_dicts'[last_trace'].query = frame'[t].query
         /\ (InRequest(t) /\ frame'[t] # frame[t])
               => /\ last_trace' = last_trace
                  /\ \A r \in TraceRefs \ {last_trace} : trace_dicts'[r] = trace_dicts[r]
                  /\ frame[t].pc = "select"
                       => trace_dicts'[last_trace].woken_agents = frame'[t].woken_agents
                  /\ frame[t].pc = "run"
                       => LET id == frame[t].woken_agents[frame[t].i].id
                          IN  /\ id \in DOMAIN trace_dicts'[last_trace].partial_results
                              /\ trace_dicts'[last_trace].slices_per_agent[id]
                                     = frame[t].slices_for_agent
                  /\ frame'[t].pc = "done" => frame'[t].trace = last_trace
      ]_vars

\* thread t returned the trace thread u created: it carries u's query, not t's,
\* and t's selection and partial results, while u has not yet written to it
C16_Witness ==
    \E t, u \in Threads :
        /\ t # u
        /\ Returned(t)
        /\ frame[u].pc = "select"
        /\ frame[t].trace = frame[u].own
        /\ frame[t].trace # frame[t].own
        /\ ReturnedTrace(t).query = frame[u].query
        /\ ReturnedTrace(t).query # frame[t].query
        /\ ReturnedTrace(t).woken_agents = frame[t].woken_agents
        /\ frame[t].woken_agents # <<>>
        /\ DOMAIN ReturnedTrace(t).partial_results = IdsOf(frame[t].woken_agents)
        /\ DOMAIN ReturnedTrace(t).slices_per_agent = IdsOf(frame[t].woken_agents)

\* the number of labeled contributions of a response, and the agent id and the
\* text of its k-th contribution
Contributions(response) == (Len(response) + 1) \div 5
ContributionId(response, k) == response[5 * k - 3]
ContributionText(response, k) == response[5 * k - 1]

\* C17 as stated: after a completed request every labeled contribution of the
\* response carries exactly the text recorded in the trace's partial_results
\* under its agent id, also when an agent occurs more than once in the selection
\* with different generated texts.
C17_EveryContributionIsRecorded ==
    \A t \in Threads :
        (Returned(t) /\ frame[t].woken_agents # <<>>) =>
            \A k \in 1..Contributions(frame[t].response) :
                /\ ContributionId(frame[t].response, k)
                       \in DOMAIN ReturnedTrace(t).partial_results
                /\ ReturnedTrace(t).partial_results[ContributionId(frame[t].response, k)]
                       = ContributionText(frame[t].response, k)

\* C17, amended: after a completed request every labeled contribution's agent id
\* has an entry in partial_results, and that entry is exactly the text of the
\* last contribution of that id in the response; an earlier contribution of an
\* id that occurs again carries the recorded text only if the texts are equal.
C17_LastContributionIsRecorded ==
    \A t \in Threads :
        (Returned(t) /\ frame[t].woken_agents # <<>>) =>
            LET response == frame[t].response
                n == Contributions(response)
            IN  /\ n = Len(frame[t].woken_agents)
                /\ \A k \in 1..n :
                     /\ ContributionId(response, k) = frame[t].woken_agents[k].id
                     /\ ContributionId(response, k)
                            \in DOMAIN ReturnedTrace(t).partial_results
                     /\ (\A m \in (k + 1)..n :
                            ContributionId(response, m) # ContributionId(response, k))
                          => ReturnedTrace(t).partial_results[ContributionId(response, k)]
                                 = ContributionText(response, k)

\* a completed request that ran one agent twice, with two different texts
C17_Witness ==
    \E t \in Threads :
        /\ Returned(t)
        /\ Contributions(frame[t].response) = 2
        /\ ContributionId(frame[t].response, 1) = ContributionId(frame[t].response, 2)
        /\ ContributionText(frame[t].response, 1) # ContributionText(frame[t].response, 2)
        /\ ReturnedTrace(t).partial_results[ContributionId(frame[t].response, 2)]
               = ContributionText(frame[t].response, 2)

\* C18: after every request that reaches the final join, the keys of the
\* trace's slices_per_agent and the keys of its partial_results are both exactly
\* the ids of the agents of its woken_agents: no agent outside the selection has
\* an entry and no selected agent lacks one.
C18_TraceKeysAreTheSelection ==
    \A t \in Threads :
        (Returned(t) /\ frame[t].woken_agents # <<>>) =>
            /\ ReturnedTrace(t).woken_agents = frame[t].woken_agents
            /\ DOMAIN ReturnedTrace(t).slices_per_agent
                   = IdsOf(ReturnedTrace(t).woken_agents)
            /\ DOMAIN ReturnedTrace(t).partial_results
                   = IdsOf(ReturnedTrace(t).woken_agents)

\* a completed request that selected only the agent without vaults, of two
\* registered agents, after a request whose trace had an entry for the other
C18_Witness ==
    \E t \in Threads :
        /\ Returned(t)
        /\ Len(frame[t].woken_agents) = 1
        /\ frame[t].woken_agents[1].vault_ids = <<>>
        /\ DOMAIN _agents # IdsOf(frame[t].woken_agents)
        /\ frame[t].replaced_ids \ IdsOf(frame[t].woken_agents) # {}
        /\ call_log[t][Len(call_log[t])].at = "finalize"

\* the elements of a sequence
Elements(s) == {s[n] : n \in 1..Len(s)}

\* C19: every slice handle_request records in a trace holds at most 5 claims
\* (the fabric always retrieves with the default limit), each of them a claim of
\* the vault the slice is keyed by and each matching the tags the augmentation
\* strategy returned for that agent, not merely the base tags.
C19_RecordedSlicesAreBounded ==
    \A t \in Threads :
        frame[t].pc # "idle" =>
            LET trace == trace_dicts[last_trace]
            IN  \A id \in DOMAIN trace.slices_per_agent :
                    /\ trace.slices_per_agent[id] = LatestRun(t, id).slices
                    /\ \A n \in 1..Len(trace.slices_per_agent[id]) :
                         LET slice == trace.slices_per_agent[id][n]
                         IN  /\ Len(slice.val) <= 5
                             /\ slice.key \in _vaults
                             /\ Elements(slice.val) \subseteq Elements(vault_claims[slice.key])
                             /\ \A c \in Elements(slice.val) :
                                    TagsCover(c.beacons, LatestRun(t, id).beacons)

\* a returned trace with a slice of exactly five claims, read under augmented
\* tags from a vault that holds six claims matching them and a claim that
\* matches the base tags only
C19_Witness ==
    \E t \in Threads :
        /\ Returned(t)
        /\ \E id \in DOMAIN ReturnedTrace(t).slices_per_agent :
             \E n \in 1..Len(ReturnedTrace(t).slices_per_agent[id]) :
               LET slice == ReturnedTrace(t).slices_per_agent[id][n]
                   run == LatestRun(t, id)
               IN  /\ Len(slice.val) = 5
                   /\ Len(MatchSeq(vault_claims[slice.key], run.beacons)) = 6
                   /\ run.beacons # ReturnedTrace(t).base_beacons
                   /\ \E c \in Elements(vault_claims[slice.key]) :
                          /\ TagsCover(c.beacons, ReturnedTrace(t).base_beacons)
                          /\ ~TagsCover(c.beacons, run.beacons)
                          /\ c \notin Elements(slice.val)

====
